---- MODULE Spec2Model ----
(***************************************************************************)
(* Model of the zone-file parser of zf-analysis (package zoneparse: the    *)
(* tokenizer Scanner.nextToken and the record assembler Scanner.Next) and  *)
(* of its driver (main.go: makeDomainsFile, worker, loadFilesToProcess).   *)
(*                                                                         *)
(* A character is a one-character string, a token or an input stream is a  *)
(* sequence of characters.                                                 *)
(***************************************************************************)
EXTENDS Integers, Sequences, FiniteSets, TLC

\* ------------------------------------------------------------ characters

SP == " "
NL == "\n"
TAB == "\t"
LP == "("
RP == ")"
QUOTE == "\""
BSL == "\\"
SEMI == ";"

\* unicode.IsSpace, restricted to the white space the inputs are built from
IsSpace(r) == r \in {SP, NL, TAB}

Digits == <<"0", "1", "2", "3", "4", "5", "6", "7", "8", "9">>

IsDigit(c) == \E i \in 1..10 : Digits[i] = c

DigitVal(c) == (CHOOSE i \in 1..10 : Digits[i] = c) - 1

LowerLetters ==
  <<"a", "b", "c", "d", "e", "f", "g", "h", "i", "j", "k", "l", "m",
    "n", "o", "p", "q", "r", "s", "t", "u", "v", "w", "x", "y", "z">>

UpperLetters ==
  <<"A", "B", "C", "D", "E", "F", "G", "H", "I", "J", "K", "L", "M",
    "N", "O", "P", "Q", "R", "S", "T", "U", "V", "W", "X", "Y", "Z">>

\* strings.ToUpper, one character
UpperChar(c) ==
  IF \E i \in 1..26 : LowerLetters[i] = c
  THEN UpperLetters[CHOOSE i \in 1..26 : LowerLetters[i] = c]
  ELSE c

\* strings.ToUpper
ToUpper(token) == [i \in 1..Len(token) |-> UpperChar(token[i])]

\* ------------------------------------------------------- classes and types

RecordClass_UNKNOWN == 0
RecordClass_IN == 1
RecordClass_CS == 2
RecordClass_CH == 3
RecordClass_HS == 4
RecordClass_any == 255

ClassValues ==
  {RecordClass_IN, RecordClass_CS, RecordClass_CH, RecordClass_HS, RecordClass_any}

\* RecordClass.String
ClassString(rc) ==
  CASE rc = RecordClass_IN -> <<"I", "N">>
    [] rc = RecordClass_CS -> <<"C", "S">>
    [] rc = RecordClass_CH -> <<"C", "H">>
    [] rc = RecordClass_HS -> <<"H", "S">>
    [] rc = RecordClass_any -> <<"*">>
    [] OTHER -> <<"[", "U", "N", "K", "N", "O", "W", "N", "]">>

RecordType_UNKNOWN == 0

\* the mnemonic of RecordType i is TypeNames[i] (the iota order of the constants)
TypeNames ==
  << <<"A">>, <<"N", "S">>, <<"M", "D">>, <<"M", "F">>,
     <<"C", "N", "A", "M", "E">>, <<"S", "O", "A">>, <<"M", "B">>,
     <<"M", "G">>, <<"M", "R">>, <<"N", "U", "L", "L">>, <<"W", "K", "S">>,
     <<"P", "T", "R">>, <<"H", "I", "N", "F", "O">>,
     <<"M", "I", "N", "F", "O">>, <<"M", "X">>, <<"T", "X", "T">>,
     <<"A", "A", "A", "A">>, <<"A", "F", "S", "D", "B">>,
     <<"D", "N", "S", "K", "E", "Y">>, <<"D", "S">>, <<"L", "O", "C">>,
     <<"N", "A", "P", "T", "R">>, <<"N", "S", "E", "C", "3">>,
     <<"N", "S", "E", "C", "3", "P", "A", "R", "A", "M">>, <<"R", "P">>,
     <<"R", "R", "S", "I", "G">>, <<"S", "P", "F">>, <<"S", "R", "V">>,
     <<"S", "S", "H", "F", "P">> >>

NumTypes == Len(TypeNames)

\* RecordType.String
TypeString(rt) ==
  IF rt \in 1..NumTypes
  THEN TypeNames[rt]
  ELSE <<"[", "U", "N", "K", "N", "O", "W", "N", "]">>

\* ------------------------------------------------------------------ errors

NoErr == [kind |-> "nil", domain |-> <<>>, type |-> 0, token |-> <<>>]
ErrEOF == [kind |-> "EOF", domain |-> <<>>, type |-> 0, token |-> <<>>]
ErrUnexpectedEnd ==
  [kind |-> "UnexpectedEnd", domain |-> <<>>, type |-> 0, token |-> <<>>]
ErrIncomplete ==
  [kind |-> "Incomplete", domain |-> <<>>, type |-> 0, token |-> <<>>]
ErrUnknownClass(token) ==
  [kind |-> "UnknownClass", domain |-> <<>>, type |-> 0, token |-> token]
ErrUnknownType(token) ==
  [kind |-> "UnknownType", domain |-> <<>>, type |-> 0, token |-> token]
ErrMissingData(domain, type) ==
  [kind |-> "MissingData", domain |-> domain, type |-> type, token |-> <<>>]
\* token[0] of an empty token: index out of range
ErrPanic == [kind |-> "panic", domain |-> <<>>, type |-> 0, token |-> <<>>]

\* --------------------------------------------------------------- tokenizer

scannerState_Default == "Default"
scannerState_String == "String"
scannerState_StringEscape == "StringEscape"
scannerState_Paren == "Paren"
scannerState_Comment == "Comment"
scannerState_Space == "Space"
scannerState_ParenComment == "ParenComment"
scannerState_ParenString == "ParenString"
scannerState_ParenStringEscape == "ParenStringEscape"

\* NewScanner: pos is the number of runes read from src so far
NewScanner ==
  [state |-> scannerState_Default, nextRune |-> "", nextSize |-> 0, pos |-> 0]

TokenResult(token, err, s) == [token |-> token, err |-> err, s |-> s]

\* One pass of the for loop of nextToken with rune r in hand (lines 239-370)
\* ends the call (Ret) or goes round with a new pending token and scanner (Go);
\* Eat is s.nextSize = 0 with the state set.
Ret(tok, s2) == [done |-> TRUE, token |-> tok, s |-> s2]

Go(tok, s2) == [done |-> FALSE, token |-> tok, s |-> s2]

Eat(s, st) == [s EXCEPT !.nextSize = 0, !.state = st]

\* StepWord that turns a newline into a record separator in a parenthesis
\* group as well
StepWordAnyNewline(s, r, token) ==
  LET InDefault == s.state = scannerState_Default IN
  IF IsSpace(r)
  THEN IF Len(token) > 0 THEN Ret(token, s)
       ELSE IF r = NL
            THEN Ret(<<NL>>, Eat(s, scannerState_Space))
            ELSE Go(token, Eat(s, s.state))
  ELSE IF InDefault /\ r = LP
  THEN IF Len(token) > 0 THEN Ret(token, s)
       ELSE Ret(<<LP>>, Eat(s, scannerState_Paren))
  ELSE IF ~InDefault /\ r = RP
  THEN IF Len(token) > 0 THEN Ret(token, s)
       ELSE Ret(<<RP>>, Eat(s, scannerState_Default))
  ELSE IF r = QUOTE
  THEN IF Len(token) > 0 THEN Ret(token, s)
       ELSE Go(<<r>>, Eat(s, IF InDefault THEN scannerState_String
                                         ELSE scannerState_ParenString))
  ELSE IF r = SEMI
  THEN IF Len(token) > 0 THEN Ret(token, s)
       ELSE Go(<<r>>, Eat(s, IF InDefault THEN scannerState_Comment
                                         ELSE scannerState_ParenComment))
  ELSE Go(Append(token, r), Eat(s, s.state))

\* case scannerState_Default, scannerState_Paren (lines 240-312)
StepWord(s, r, token) ==
  LET InDefault == s.state = scannerState_Default IN
  IF IsSpace(r)
  THEN IF Len(token) > 0 THEN Ret(token, s)
       ELSE IF InDefault /\ r = NL
            THEN Ret(<<NL>>, Eat(s, scannerState_Space))
            ELSE Go(token, Eat(s, s.state))
  ELSE IF InDefault /\ r = LP
  THEN IF Len(token) > 0 THEN Ret(token, s)
       ELSE Ret(<<LP>>, Eat(s, scannerState_Paren))
  ELSE IF ~InDefault /\ r = RP
  THEN IF Len(token) > 0 THEN Ret(token, s)
       ELSE Ret(<<RP>>, Eat(s, scannerState_Default))
  ELSE IF r = QUOTE
  THEN IF Len(token) > 0 THEN Ret(token, s)
       ELSE Go(<<r>>, Eat(s, IF InDefault THEN scannerState_String
                                         ELSE scannerState_ParenString))
  ELSE IF r = SEMI
  THEN IF Len(token) > 0 THEN Ret(token, s)
       ELSE Go(<<r>>, Eat(s, IF InDefault THEN scannerState_Comment
                                         ELSE scannerState_ParenComment))
  ELSE Go(Append(token, r), Eat(s, s.state))

\* case scannerState_String, scannerState_ParenString (lines 314-338)
StepString(s, r, token) ==
  LET InString == s.state = scannerState_String IN
  IF r = QUOTE
  THEN Ret(Append(token, r),
           Eat(s, IF InString THEN scannerState_Default ELSE scannerState_Paren))
  ELSE IF r = BSL
  THEN Go(Append(token, r),
          Eat(s, IF InString THEN scannerState_StringEscape
                             ELSE scannerState_ParenStringEscape))
  ELSE Go(Append(token, r), Eat(s, s.state))

\* StepEscape in which a quote after a backslash still ends the string
StepEscapeQuoteEnds(s, r, token) ==
  LET InString == s.state = scannerState_StringEscape IN
  IF r = QUOTE
  THEN Ret(Append(token, r),
           Eat(s, IF InString THEN scannerState_Default ELSE scannerState_Paren))
  ELSE Go(Append(token, r),
          Eat(s, IF InString THEN scannerState_String
                             ELSE scannerState_ParenString))

\* case scannerState_StringEscape, scannerState_ParenStringEscape (340-347)
StepEscape(s, r, token) ==
  Go(Append(token, r),
     Eat(s, IF s.state = scannerState_StringEscape THEN scannerState_String
                                                   ELSE scannerState_ParenString))

\* StepComment that consumes the newline
StepCommentEatsNewline(s, r, token) ==
  IF r = NL
  THEN Go(token, Eat(s, IF s.state = scannerState_Comment
                        THEN scannerState_Default
                        ELSE scannerState_Paren))
  ELSE Go(Append(token, r), Eat(s, s.state))

\* case scannerState_Comment, scannerState_ParenComment (lines 349-360): the
\* newline stays in nextRune
StepComment(s, r, token) ==
  IF r = NL
  THEN Go(token, [s EXCEPT !.state = IF s.state = scannerState_Comment
                                     THEN scannerState_Default
                                     ELSE scannerState_Paren])
  ELSE Go(Append(token, r), Eat(s, s.state))

\* StepSpace that returns at the first rune that is no white space
StepSpaceReturns(s, r, token) ==
  IF IsSpace(r)
  THEN Go(token, Eat(s, s.state))
  ELSE Ret(token, [s EXCEPT !.state = scannerState_Default])

\* case scannerState_Space (lines 362-369)
StepSpace(s, r, token) ==
  IF IsSpace(r)
  THEN Go(token, Eat(s, s.state))
  ELSE Go(token, [s EXCEPT !.state = scannerState_Default])

\* the switch of lines 239-370
Step(s, r, token) ==
  CASE s.state \in {scannerState_Default, scannerState_Paren} -> StepWord(s, r, token)
    [] s.state \in {scannerState_String, scannerState_ParenString} ->
         StepString(s, r, token)
    [] s.state \in {scannerState_StringEscape, scannerState_ParenStringEscape} ->
         StepEscape(s, r, token)
    [] s.state \in {scannerState_Comment, scannerState_ParenComment} ->
         StepComment(s, r, token)
    [] OTHER -> StepSpace(s, r, token)

\* AtEOF that takes an open parenthesis group for the end of a record
AtEOFParenOpen(s, token) ==
  IF s.state \notin
       {scannerState_Default, scannerState_Space, scannerState_Comment,
        scannerState_Paren, scannerState_ParenComment}
  THEN TokenResult(<<>>, ErrUnexpectedEnd, s)
  ELSE IF Len(token) # 0
       THEN TokenResult(token, NoErr, s)
       ELSE TokenResult(<<>>, ErrEOF, s)

\* At io.EOF (lines 219-233)
AtEOF(s, token) ==
  IF s.state \notin
       {scannerState_Default, scannerState_Space, scannerState_Comment}
  THEN TokenResult(<<>>, ErrUnexpectedEnd, s)
  ELSE IF Len(token) # 0
       THEN TokenResult(token, NoErr, s)
       ELSE TokenResult(<<>>, ErrEOF, s)

RECURSIVE tokenLoop(_, _, _)
tokenLoop(inp, s, token) ==
  IF s.nextSize = 0 /\ s.pos >= Len(inp)
  THEN AtEOF(s, token)
  ELSE LET r == IF s.nextSize # 0 THEN s.nextRune ELSE inp[s.pos + 1]
           s1 == [s EXCEPT !.nextRune = r, !.nextSize = 1,
                           !.pos = IF s.nextSize # 0 THEN s.pos ELSE s.pos + 1]
           st == Step(s1, r, token)
       IN IF st.done
          THEN TokenResult(st.token, NoErr, st.s)
          ELSE tokenLoop(inp, st.s, st.token)

\* Scanner.nextToken on the stream inp
nextToken(inp, s) == tokenLoop(inp, s, <<>>)

\* Where a call of nextToken is when src.ReadRune returns io.EOF (line 218):
\* the state and the pending token then, or eof = FALSE when the call returns
\* before the end of the input is read.
RECURSIVE EndOfCall(_, _, _)
EndOfCall(inp, s, token) ==
  IF s.nextSize = 0 /\ s.pos >= Len(inp)
  THEN [eof |-> TRUE, state |-> s.state, token |-> token]
  ELSE LET r == IF s.nextSize # 0 THEN s.nextRune ELSE inp[s.pos + 1]
           s1 == [s EXCEPT !.nextRune = r, !.nextSize = 1,
                           !.pos = IF s.nextSize # 0 THEN s.pos ELSE s.pos + 1]
           st == Step(s1, r, token)
       IN IF st.done
          THEN [eof |-> FALSE, state |-> st.s.state, token |-> st.token]
          ELSE EndOfCall(inp, st.s, st.token)

\* ---------------------------------------------------------------- records

\* The model's integers are 32 bits wide and TimeToLive is an int64 holding -1
\* or a uint32: an integer n is kept as <<hi, lo>> with n = hi * Limb + lo.
Limb == 100000
MaxUint32Hi == 42949
MaxUint32Lo == 67295

\* int64(-1), the "unset" TimeToLive of Next (line 466)
TTLUnset == <<0, -1>>

\* the zero value of Record (var record Record)
ZeroRecord ==
  [DomainName |-> <<>>, TimeToLive |-> <<0, 0>>, Class |-> RecordClass_UNKNOWN,
   Type |-> RecordType_UNKNOWN, Data |-> <<>>, Comment |-> <<>>]

\* strconv.ParseUint(token, 10, 32), digit by digit: a syntax error on a
\* character that is no digit, a range error past 2^32 - 1
RECURSIVE parseUintLoop(_, _, _)
parseUintLoop(token, i, n) ==
  IF i > Len(token) THEN [ok |-> TRUE, val |-> n]
  ELSE IF ~IsDigit(token[i]) THEN [ok |-> FALSE, val |-> <<0, 0>>]
  ELSE LET low == n[2] * 10 + DigitVal(token[i])
           hi == n[1] * 10 + (low \div Limb)
           lo == low % Limb
       IN IF hi > MaxUint32Hi \/ (hi = MaxUint32Hi /\ lo > MaxUint32Lo)
          THEN [ok |-> FALSE, val |-> <<0, 0>>]
          ELSE parseUintLoop(token, i + 1, <<hi, lo>>)

\* ParseUint with bitSize 31: a range error past 2^31 - 1
ParseUint31(token) ==
  LET u == IF Len(token) = 0 THEN [ok |-> FALSE, val |-> <<0, 0>>]
           ELSE parseUintLoop(token, 1, <<0, 0>>)
  IN IF u.ok /\ (u.val[1] > 21474 \/ (u.val[1] = 21474 /\ u.val[2] > 83647))
     THEN [ok |-> FALSE, val |-> <<0, 0>>]
     ELSE u

ParseUint(token) ==
  IF Len(token) = 0 THEN [ok |-> FALSE, val |-> <<0, 0>>]
  ELSE parseUintLoop(token, 1, <<0, 0>>)

\* the decimal digits of 0 <= n < Limb * 10, most significant first
RECURSIVE natDigits(_)
natDigits(n) ==
  IF n < 10 THEN <<Digits[n + 1]>>
  ELSE Append(natDigits(n \div 10), Digits[(n % 10) + 1])

RECURSIVE padLeft(_, _)
padLeft(ds, width) == IF Len(ds) >= width THEN ds ELSE padLeft(<<"0">> \o ds, width)

\* fmt.Sprintf("%d", n)
FormatInt(n) ==
  IF n[1] = 0
  THEN IF n[2] < 0 THEN <<"-">> \o natDigits(0 - n[2]) ELSE natDigits(n[2])
  ELSE natDigits(n[1]) \o padLeft(natDigits(n[2]), 5)

\* parseClass
parseClass(token) ==
  LET up == ToUpper(token) IN
  IF \E c \in ClassValues : ClassString(c) = up
  THEN [class |-> CHOOSE c \in ClassValues : ClassString(c) = up, err |-> NoErr]
  ELSE [class |-> RecordClass_UNKNOWN, err |-> ErrUnknownClass(token)]

\* parseType
parseType(token) ==
  LET up == ToUpper(token) IN
  IF \E t \in 1..NumTypes : TypeNames[t] = up
  THEN [type |-> CHOOSE t \in 1..NumTypes : TypeNames[t] = up, err |-> NoErr]
  ELSE [type |-> 0, err |-> ErrUnknownType(token)]

\* strings.Join(elems, " ")
RECURSIVE Join(_)
Join(elems) ==
  IF Len(elems) = 0 THEN <<>>
  ELSE IF Len(elems) = 1 THEN elems[1]
  ELSE elems[1] \o <<SP>> \o Join(Tail(elems))

\* Record.String
RecordString(r) ==
  Join(<<r.DomainName>>
       \o (IF r.TimeToLive # TTLUnset THEN <<FormatInt(r.TimeToLive)>> ELSE <<>>)
       \o (IF r.Class # RecordClass_UNKNOWN THEN <<ClassString(r.Class)>> ELSE <<>>)
       \o (IF r.Type # RecordType_UNKNOWN THEN <<TypeString(r.Type)>> ELSE <<>>)
       \o (IF Len(r.Data) # 0 THEN <<Join(r.Data)>> ELSE <<>>)
       \o (IF Len(r.Comment) # 0 THEN <<r.Comment>> ELSE <<>>))

\* --------------------------------------------------------- record assembler

\* What a call of Next leaves behind: the error returned, whether *outrecord
\* was assigned and with what, the scanner, and the tokens nextToken handed
\* to this call, in order (nameAt: the index among them of the domain name).
NextResult(err, wrote, record, s, toks, nameAt) ==
  [err |-> err, wrote |-> wrote, record |-> record, s |-> s, toks |-> toks,
   nameAt |-> nameAt]

\* token[0] == ';' (index out of range on an empty token)
IsCommentToken(token) == Len(token) > 0 /\ token[1] = SEMI

\* The frame of a call of Next once the domain name is read: the local record
\* and flags, the scanner, the tokens read so far.

\* AtError without the test of the flags: the end of input after the type is
\* handed on as io.EOF
AtErrorPlain(a, e, s) ==
  IF e = ErrEOF /\ a.hasData
  THEN NextResult(NoErr, TRUE, a.record, s, a.toks, a.nameAt)
  ELSE NextResult(e, FALSE, a.record, s, a.toks, a.nameAt)

\* AtError that hands the unfinished record to the caller with the error
AtErrorWrites(a, e, s) ==
  IF e = ErrEOF /\ a.hasData
  THEN NextResult(NoErr, TRUE, a.record, s, a.toks, a.nameAt)
  ELSE IF e = ErrEOF /\ (a.hasClass \/ a.hasTTL \/ a.hasType)
       THEN NextResult(ErrIncomplete, TRUE, a.record, s, a.toks, a.nameAt)
       ELSE NextResult(e, TRUE, a.record, s, a.toks, a.nameAt)

\* lines 480-493: nextToken returned the error e, leaving the scanner s
AtError(a, e, s) ==
  IF e = ErrEOF /\ a.hasData
  THEN NextResult(NoErr, TRUE, a.record, s, a.toks, a.nameAt)
  ELSE IF e = ErrEOF /\ (a.hasClass \/ a.hasTTL \/ a.hasType)
       THEN NextResult(ErrIncomplete, FALSE, a.record, s, a.toks, a.nameAt)
       ELSE NextResult(e, FALSE, a.record, s, a.toks, a.nameAt)

\* Classify by position: a TTL is looked for only before the class
ClassifyTTLFirst(a, token) ==
  LET u == ParseUint(token)
      r1 == IF ~a.hasTTL /\ ~u.ok
            THEN [a.record EXCEPT !.TimeToLive = TTLUnset]
            ELSE a.record
      c == parseClass(token)
      r2 == IF ~a.hasClass THEN [r1 EXCEPT !.Class = c.class] ELSE r1
      ty == parseType(token)
  IN
  IF ~a.hasTTL /\ ~a.hasClass /\ u.ok
  THEN [err |-> NoErr,
        frame |-> [a EXCEPT !.record.TimeToLive = u.val, !.hasTTL = TRUE]]
  ELSE IF ~a.hasClass /\ c.err = NoErr
  THEN [err |-> NoErr, frame |-> [a EXCEPT !.record = r2, !.hasClass = TRUE]]
  ELSE IF ty.err # NoErr
  THEN [err |-> ty.err, frame |-> [a EXCEPT !.record = [r2 EXCEPT !.Type = ty.type]]]
  ELSE [err |-> NoErr,
        frame |-> [a EXCEPT !.record = [r2 EXCEPT !.Type = ty.type],
                            !.hasType = TRUE]]

\* Classify that skips a token it cannot place instead of failing
ClassifySkipUnknown(a, token) ==
  LET u == ParseUint(token)
      r1 == IF ~a.hasTTL /\ ~u.ok
            THEN [a.record EXCEPT !.TimeToLive = TTLUnset]
            ELSE a.record
      c == parseClass(token)
      r2 == IF ~a.hasClass THEN [r1 EXCEPT !.Class = c.class] ELSE r1
      ty == parseType(token)
  IN
  IF ~a.hasTTL /\ u.ok
  THEN [err |-> NoErr,
        frame |-> [a EXCEPT !.record.TimeToLive = u.val, !.hasTTL = TRUE]]
  ELSE IF ~a.hasClass /\ c.err = NoErr
  THEN [err |-> NoErr, frame |-> [a EXCEPT !.record = r2, !.hasClass = TRUE]]
  ELSE IF ty.err # NoErr
  THEN [err |-> NoErr, frame |-> [a EXCEPT !.record = r2]]
  ELSE [err |-> NoErr,
        frame |-> [a EXCEPT !.record = [r2 EXCEPT !.Type = ty.type],
                            !.hasType = TRUE]]

\* lines 495-525, the type not yet known: the frame after the token, and the
\* error if the call returns here
Classify(a, token) ==
  LET u == ParseUint(token)
      r1 == IF ~a.hasTTL /\ ~u.ok
            THEN [a.record EXCEPT !.TimeToLive = TTLUnset]
            ELSE a.record
      c == parseClass(token)
      r2 == IF ~a.hasClass THEN [r1 EXCEPT !.Class = c.class] ELSE r1
      ty == parseType(token)
  IN
  IF ~a.hasTTL /\ u.ok
  THEN [err |-> NoErr,
        frame |-> [a EXCEPT !.record.TimeToLive = u.val, !.hasTTL = TRUE]]
  ELSE IF ~a.hasClass /\ c.err = NoErr
  THEN [err |-> NoErr, frame |-> [a EXCEPT !.record = r2, !.hasClass = TRUE]]
  ELSE IF ty.err # NoErr
  THEN [err |-> ty.err, frame |-> [a EXCEPT !.record = [r2 EXCEPT !.Type = ty.type]]]
  ELSE [err |-> NoErr,
        frame |-> [a EXCEPT !.record = [r2 EXCEPT !.Type = ty.type],
                            !.hasType = TRUE]]

\* Collect without the test for missing data
CollectNoData(a, token) ==
  IF Len(token) = 0
  THEN [op |-> "fail", err |-> ErrPanic, frame |-> a]
  ELSE IF IsCommentToken(token)
  THEN [op |-> "continue", err |-> NoErr,
        frame |-> [a EXCEPT !.record.Comment = token]]
  ELSE IF token = <<NL>>
  THEN [op |-> "break", err |-> NoErr, frame |-> a]
  ELSE [op |-> "continue", err |-> NoErr,
        frame |-> [a EXCEPT !.record.Comment = <<>>,
                            !.record.Data = Append(a.record.Data, token),
                            !.hasData = TRUE]]

\* Collect that keeps a comment when data follows it
CollectKeepComment(a, token) ==
  IF Len(token) = 0
  THEN [op |-> "fail", err |-> ErrPanic, frame |-> a]
  ELSE IF ~a.hasData /\ (token = <<NL>> \/ IsCommentToken(token))
  THEN [op |-> "fail", frame |-> a,
        err |-> ErrMissingData(a.record.DomainName, a.record.Type)]
  ELSE IF IsCommentToken(token)
  THEN [op |-> "continue", err |-> NoErr,
        frame |-> [a EXCEPT !.record.Comment = token]]
  ELSE IF token = <<NL>>
  THEN [op |-> "break", err |-> NoErr, frame |-> a]
  ELSE [op |-> "continue", err |-> NoErr,
        frame |-> [a EXCEPT !.record.Data = Append(a.record.Data, token),
                            !.hasData = TRUE]]

\* lines 527-548, the type known: "fail" with an error, "break" at the record
\* separator, or "continue" with the frame after the token
Collect(a, token) ==
  IF Len(token) = 0
  THEN [op |-> "fail", err |-> ErrPanic, frame |-> a]
  ELSE IF ~a.hasData /\ (token = <<NL>> \/ IsCommentToken(token))
  THEN [op |-> "fail", frame |-> a,
        err |-> ErrMissingData(a.record.DomainName, a.record.Type)]
  ELSE IF IsCommentToken(token)
  THEN [op |-> "continue", err |-> NoErr,
        frame |-> [a EXCEPT !.record.Comment = token]]
  ELSE IF token = <<NL>>
  THEN [op |-> "break", err |-> NoErr, frame |-> a]
  ELSE [op |-> "continue", err |-> NoErr,
        frame |-> [a EXCEPT !.record.Comment = <<>>,
                            !.record.Data = Append(a.record.Data, token),
                            !.hasData = TRUE]]

\* the second loop of Next (lines 479-549)
RECURSIVE recordLoop(_, _)
recordLoop(inp, a) ==
  LET t == nextToken(inp, a.s)
      b == [a EXCEPT !.s = t.s, !.toks = Append(a.toks, t.token)]
  IN
  IF t.err # NoErr
  THEN AtError(a, t.err, t.s)
  ELSE IF ~a.hasType
  THEN LET c == Classify(b, t.token) IN
       IF c.err # NoErr
       THEN NextResult(c.err, FALSE, c.frame.record, b.s, b.toks, b.nameAt)
       ELSE recordLoop(inp, c.frame)
  ELSE LET d == Collect(b, t.token) IN
       CASE d.op = "fail" ->
              NextResult(d.err, FALSE, d.frame.record, b.s, b.toks, b.nameAt)
         [] d.op = "break" ->
              NextResult(NoErr, TRUE, d.frame.record, b.s, b.toks, b.nameAt)
         [] OTHER -> recordLoop(inp, d.frame)

\* the first loop of Next (lines 467-475), then the second
RECURSIVE nameLoop(_, _, _)
nameLoop(inp, s, toks) ==
  LET t == nextToken(inp, s)
      toks1 == Append(toks, t.token)
  IN
  IF t.err # NoErr
  THEN NextResult(t.err, FALSE, ZeroRecord, t.s, toks, 0)
  ELSE IF t.token # <<NL>> /\ Len(t.token) = 0
  THEN NextResult(ErrPanic, FALSE, ZeroRecord, t.s, toks1, 0)
  ELSE IF t.token # <<NL>> /\ ~IsCommentToken(t.token)
  THEN recordLoop(inp,
         [s |-> t.s, toks |-> toks1, nameAt |-> Len(toks1),
          record |-> [ZeroRecord EXCEPT !.TimeToLive = TTLUnset,
                                        !.DomainName = t.token],
          hasClass |-> FALSE, hasTTL |-> FALSE, hasType |-> FALSE,
          hasData |-> FALSE])
  ELSE nameLoop(inp, t.s, toks1)

\* Scanner.Next on the stream inp
Next(inp, s) == nameLoop(inp, s, <<>>)

\* ------------------------------------------------------------------ state

VARIABLES
  input,    \* the text of the stream the scanner reads (after gzip)
  shape,    \* how input was drawn: the parts it was put together from
  sc,       \* makeDomainsFile: scanner
  record,   \* makeDomainsFile: var record zoneparse.Record
  err,      \* makeDomainsFile: err of the last scanner.Next
  pc,       \* makeDomainsFile: "call" (line 117), "test" (line 118),
            \* "finish" (line 135), "done", "panic"
  stuff,    \* makeDomainsFile: the set of domain names seen
  zone,     \* makeDomainsFile: var zone ZoneInfo
  hist,     \* history of the last call of Next: the scanner it started from,
            \* the number of tokens handed out before it, its tokens
  zones,    \* main.go: the global slice zones
  pool      \* main.go: the goroutines, inputChan, loadDone, work

scanVars == <<input, shape, sc, record, err, pc, stuff, zone, hist>>

vars == <<input, shape, sc, record, err, pc, stuff, zone, hist, zones, pool>>

\* ZoneInfo{}
ZeroZone == [SOA |-> <<>>, Count |-> 0]

\* strings.TrimRight(name, ".")
RECURSIVE TrimRightDots(_)
TrimRightDots(name) ==
  IF Len(name) > 0 /\ name[Len(name)] = "."
  THEN TrimRightDots(SubSeq(name, 1, Len(name) - 1))
  ELSE name

\* lines 130-132
NoteSOA(z, r) ==
  IF TypeString(r.Type) = <<"S", "O", "A">> THEN [z EXCEPT !.SOA = r.DomainName]
  ELSE z

\* line 133
NoteName(names, r) == names \cup {TrimRightDots(r.DomainName)}

NoHist == [from |-> NewScanner, before |-> 0, toks |-> <<>>, nameAt |-> 0]

\* makeDomainsFile, lines 110-115, on an opened stream
ScanInit ==
  /\ sc = NewScanner
  /\ record = ZeroRecord
  /\ err = NoErr
  /\ pc = "call"
  /\ stuff = {}
  /\ zone = ZeroZone
  /\ hist = NoHist

\* line 117: err := scanner.Next(&record)
CallNext ==
  /\ pc = "call"
  /\ LET r == Next(input, sc) IN
       /\ sc' = r.s
       /\ record' = IF r.wrote THEN r.record ELSE record
       /\ err' = r.err
       /\ pc' = IF r.err = ErrPanic THEN "panic" ELSE "test"
       /\ hist' = [from |-> sc, before |-> hist.before + Len(hist.toks),
                   toks |-> r.toks, nameAt |-> r.nameAt]
  /\ UNCHANGED <<input, shape, stuff, zone, zones, pool>>

\* lines 118-133: break at io.EOF, continue at any other error, else note the
\* record
TestErr ==
  /\ pc = "test"
  /\ IF err # NoErr
     THEN /\ pc' = IF err = ErrEOF THEN "finish" ELSE "call"
          /\ UNCHANGED <<stuff, zone>>
     ELSE /\ pc' = "call"
          /\ zone' = NoteSOA(zone, record)
          /\ stuff' = NoteName(stuff, record)
  /\ UNCHANGED <<input, shape, sc, record, err, hist, zones, pool>>

\* lines 135-136, after the loop
Finish ==
  /\ pc = "finish"
  /\ zone' = [zone EXCEPT !.Count = Cardinality(stuff)]
  /\ zones' = Append(zones, zone')
  /\ pc' = "done"
  /\ UNCHANGED <<input, shape, sc, record, err, stuff, hist, pool>>

ScanNext == CallNext \/ TestErr \/ Finish

\* One call of nextToken, as Next makes them one after the other on its
\* Scanner (lines 468 and 480), up to io.EOF. hist keeps the Scanner the call
\* started from, the number of tokens returned before it, and its token.
TokenStep(r) ==
  /\ sc' = r.s
  /\ err' = r.err
  /\ hist' = [from |-> sc,
              before |-> IF pc = "first" THEN 0 ELSE hist.before + Len(hist.toks),
              toks |-> IF r.err = NoErr THEN <<r.token>> ELSE <<>>,
              nameAt |-> 0]
  /\ pc' = IF r.err = ErrEOF THEN "end" ELSE "token"

CallToken ==
  /\ pc \in {"first", "token"}
  /\ TokenStep(nextToken(input, sc))
  /\ UNCHANGED <<input, shape, record, stuff, zone, zones, pool>>

\* ------------------------------------------------------------ worker pool

\* The loop of makeDomainsFile (lines 116-134) run to its end on the stream
\* inp: the zone at line 135, or ends = FALSE when the loop never ends (a call
\* that fails with no token read and the scanner unchanged, at the end of the
\* input, fails in the same way for ever).
RECURSIVE scanLoop(_, _, _, _, _)
loopBody(inp, s, r, rec, names, z) ==
  IF r.err = ErrEOF
  THEN [ends |-> TRUE, zone |-> [z EXCEPT !.Count = Cardinality(names)]]
  ELSE IF r.err # NoErr
  THEN IF r.s = s /\ r.toks = <<>>
       THEN [ends |-> FALSE, zone |-> z]
       ELSE scanLoop(inp, r.s, rec, names, z)
  ELSE scanLoop(inp, r.s, r.record, NoteName(names, r.record), NoteSOA(z, r.record))

scanLoop(inp, s, rec, names, z) == loopBody(inp, s, Next(inp, s), rec, names, z)

ScanAll(inp) == scanLoop(inp, NewScanner, ZeroRecord, {}, ZeroZone)

\* strings.ToLower, one character
LowerChar(c) ==
  IF \E i \in 1..26 : UpperLetters[i] = c
  THEN LowerLetters[CHOOSE i \in 1..26 : UpperLetters[i] = c]
  ELSE c

\* strings.ToLower
ToLower(token) == [i \in 1..Len(token) |-> LowerChar(token[i])]

\* strings.Split(text, sep) for a one-character sep
RECURSIVE splitLoop(_, _, _, _)
splitLoop(text, sep, i, cur) ==
  IF i > Len(text) THEN <<cur>>
  ELSE IF text[i] = sep THEN <<cur>> \o splitLoop(text, sep, i + 1, <<>>)
  ELSE splitLoop(text, sep, i + 1, Append(cur, text[i]))

Split(text, sep) == splitLoop(text, sep, 1, <<>>)

\* the lines bufio.Scanner yields: no empty last line after a final newline
ScanLines(text) ==
  LET ls == Split(text, NL) IN
  IF Len(ls) > 0 /\ ls[Len(ls)] = <<>> THEN SubSeq(ls, 1, Len(ls) - 1) ELSE ls

\* comparse.Parse: the file's text is known when it could be opened (fewer
\* than 50M lines)
ComParse(file) ==
  IF ~file.exists THEN [SOA |-> <<"-", "-", "-">>, Count |-> 0]
  ELSE LET ls == ScanLines(file.text)
           Keep(tokens) ==
             /\ Len(tokens) > 2
             /\ Len(tokens[1]) > 0
             /\ ToLower(tokens[2]) \in {<<"n", "s">>, <<"a">>}
           domains == {ToLower(Split(ls[i], SP)[1]) :
                         i \in {k \in 1..Len(ls) : Keep(Split(ls[k], SP))}}
       IN [SOA |-> <<"c", "o", "m", ".">>, Count |-> Cardinality(domains)]

\* strings.Contains(zonefile, "com.zone.gz")
IsComZone(file) == file.name = "com.zone.gz"

\* main: the goroutines and what they share. w[i] is worker i: where it is,
\* the file it holds, the zone it is about to append, the value of zones it
\* has loaded to append to. handled[f] counts the returns of makeDomainsFile
\* for file f, appends the appends executed, returned the calls of work.Done.
IdleWorker == [pc |-> "none", file |-> 0, zone |-> ZeroZone, snap |-> <<>>]

PoolStart(files, parallel) ==
  [kind |-> "pool", files |-> files, parallel |-> parallel, mainPc |-> "load",
   spawned |-> 0, loadPc |-> "none", loadIdx |-> 1, work |-> 0,
   w |-> [i \in 1..parallel |-> IdleWorker], appends |-> 0, returned |-> 0,
   handled |-> [f \in 1..Len(files) |-> 0], stats |-> <<>>]

\* line 181: go loadFilesToProcess(matches)
MainGoLoad ==
  /\ pool.kind = "pool"
  /\ pool.mainPc = "load"
  /\ pool' = [pool EXCEPT !.mainPc = "spawn",
                          !.loadPc = IF Len(pool.files) = 0 THEN "signal" ELSE "add"]
  /\ UNCHANGED <<scanVars, zones>>

\* lines 183-185: go worker(bar), parallel times
MainSpawn ==
  /\ pool.kind = "pool"
  /\ pool.mainPc = "spawn"
  /\ IF pool.spawned < pool.parallel
     THEN pool' = [pool EXCEPT !.spawned = pool.spawned + 1,
                               !.w[pool.spawned + 1].pc = "recv"]
     ELSE pool' = [pool EXCEPT !.mainPc = "waitLoad"]
  /\ UNCHANGED <<scanVars, zones>>

\* line 62: work.Add(1)
LoadAdd ==
  /\ pool.kind = "pool"
  /\ pool.loadPc = "add"
  /\ pool' = [pool EXCEPT !.work = pool.work + 1, !.loadPc = "send"]
  /\ UNCHANGED <<scanVars, zones>>

\* line 63 with line 70: inputChan is unbuffered, the send and a receive are
\* one step
Hand ==
  \E i \in 1..pool.parallel :
    /\ pool.kind = "pool"
    /\ pool.loadPc = "send"
    /\ pool.w[i].pc = "recv"
    /\ pool' = [pool EXCEPT !.w[i].pc = "make", !.w[i].file = pool.loadIdx,
                            !.loadIdx = pool.loadIdx + 1,
                            !.loadPc = IF pool.loadIdx + 1 > Len(pool.files)
                                       THEN "signal" ELSE "add"]
    /\ UNCHANGED <<scanVars, zones>>

\* line 65 with line 186: loadDone is unbuffered
LoadDone ==
  /\ pool.kind = "pool"
  /\ pool.loadPc = "signal"
  /\ pool.mainPc = "waitLoad"
  /\ pool' = [pool EXCEPT !.loadPc = "done", !.mainPc = "waitWork"]
  /\ UNCHANGED <<scanVars, zones>>

\* makeDomainsFile up to its append: lines 88-89, or lines 97-135. A file
\* that cannot be opened is skipped (line 100).
FileResult(f) ==
  IF IsComZone(f) THEN [ends |-> TRUE, skip |-> FALSE, zone |-> ComParse(f)]
  ELSE IF ~f.exists THEN [ends |-> TRUE, skip |-> TRUE, zone |-> ZeroZone]
  ELSE [ends |-> ScanAll(f.text).ends, skip |-> FALSE, zone |-> ScanAll(f.text).zone]

\* worker i leaves makeDomainsFile's reading with result res; a loop that
\* never ends keeps the worker there
MakeWith(i, res) ==
  /\ res.ends
  /\ pool' = [pool EXCEPT !.w[i].pc = IF res.skip THEN "return" ELSE "load",
                          !.w[i].zone = res.zone]

Make ==
  \E i \in 1..pool.parallel :
    /\ pool.kind = "pool"
    /\ pool.w[i].pc = "make"
    /\ MakeWith(i, FileResult(pool.files[pool.w[i].file]))
    /\ UNCHANGED <<scanVars, zones>>

\* zones = append(zones, zone), lines 90 and 136, is a load of zones and a
\* store to it, with no lock held: the load
AppendLoad ==
  \E i \in 1..pool.parallel :
    /\ pool.kind = "pool"
    /\ pool.w[i].pc = "load"
    /\ pool' = [pool EXCEPT !.w[i].pc = "store", !.w[i].snap = zones]
    /\ UNCHANGED <<scanVars, zones>>

\* the store
AppendStore ==
  \E i \in 1..pool.parallel :
    /\ pool.kind = "pool"
    /\ pool.w[i].pc = "store"
    /\ zones' = Append(pool.w[i].snap, pool.w[i].zone)
    /\ pool' = [pool EXCEPT !.w[i].pc = "return", !.appends = pool.appends + 1]
    /\ UNCHANGED scanVars

\* makeDomainsFile returns; line 78: work.Done()
WorkDone ==
  \E i \in 1..pool.parallel :
    /\ pool.kind = "pool"
    /\ pool.w[i].pc = "return"
    /\ pool' = [pool EXCEPT !.w[i].pc = "recv", !.work = pool.work - 1,
                            !.returned = pool.returned + 1,
                            !.handled[pool.w[i].file] = @ + 1]
    /\ UNCHANGED <<scanVars, zones>>

\* MainWait that does not wait for the counter
MainNoWait ==
  /\ pool.kind = "pool"
  /\ pool.mainPc = "waitWork"
  /\ pool' = [pool EXCEPT !.mainPc = "stats"]
  /\ UNCHANGED <<scanVars, zones>>

\* line 187: work.Wait()
MainWait ==
  /\ pool.kind = "pool"
  /\ pool.mainPc = "waitWork"
  /\ pool.work = 0
  /\ pool' = [pool EXCEPT !.mainPc = "stats"]
  /\ UNCHANGED <<scanVars, zones>>

\* line 189: writeStatsFile(), one line per element of zones
WriteStats ==
  /\ pool.kind = "pool"
  /\ pool.mainPc = "stats"
  /\ pool' = [pool EXCEPT !.mainPc = "done", !.stats = zones]
  /\ UNCHANGED <<scanVars, zones>>

PoolNext ==
  \/ MainGoLoad
  \/ MainSpawn
  \/ LoadAdd
  \/ LoadDone
  \/ MainWait
  \/ WriteStats
  \/ Hand
  \/ Make
  \/ AppendLoad
  \/ AppendStore
  \/ WorkDone

\* ------------------------------------------------------------------ inputs

SeqsUpTo(S, n) == UNION {[1..k -> S] : k \in 0..n}

RECURSIVE Concat(_)
Concat(ss) == IF Len(ss) = 0 THEN <<>> ELSE ss[1] \o Concat(Tail(ss))

\* the words, each followed by one space
RECURSIVE Spaced(_)
Spaced(ws) == IF Len(ws) = 0 THEN <<>> ELSE ws[1] \o <<SP>> \o Spaced(Tail(ws))

\* the words with one space between them
Words(ws) ==
  IF Len(ws) = 0 THEN <<>> ELSE SubSeq(Spaced(ws), 1, Len(Spaced(ws)) - 1)

\* One-line entries: a name, tokens before the type, a type, data, and the
\* line's end. A part is written with what it stands for: kind "ttl" with the
\* value <<hi, lo>>, kind "class" with the RecordClass, kind "none" for a token
\* that is neither (4294967296 is 2^32).
MaxPre == 2
MaxData == 2

LineNames == {<<"x", ".">>, <<"7">>}

PreToks ==
  {[tok |-> <<"0", "0", "7">>, kind |-> "ttl", val |-> <<0, 7>>],
   [tok |-> <<"4", "2", "9", "4", "9", "6", "7", "2", "9", "5">>, kind |-> "ttl",
    val |-> <<42949, 67295>>],
   [tok |-> <<"4", "2", "9", "4", "9", "6", "7", "2", "9", "6">>, kind |-> "none",
    val |-> 0],
   [tok |-> <<"h", "s">>, kind |-> "class", val |-> RecordClass_HS],
   [tok |-> <<"*">>, kind |-> "class", val |-> RecordClass_any]}

\* RecordType_MX is 15 and RecordType_NSEC3PARAM 24 in the iota order
TypeToks ==
  {[tok |-> <<"m", "x">>, known |-> TRUE, val |-> 15],
   [tok |-> <<"N", "S", "E", "C", "3", "P", "A", "R", "A", "M">>, known |-> TRUE,
    val |-> 24],
   [tok |-> <<"B", "O", "G", "U", "S">>, known |-> FALSE, val |-> 0]}

DataWords == {<<"d">>, <<"9">>}

LineShapes ==
  {[kind |-> "line", name |-> n, pre |-> p, type |-> ty, data |-> d, term |-> e] :
     n \in LineNames, p \in SeqsUpTo(PreToks, MaxPre), ty \in TypeToks,
     d \in SeqsUpTo(DataWords, MaxData), e \in {"nl", "eof"}}

\* the tokens of a line after its name
LineTokens(sh) ==
  [i \in 1..Len(sh.pre) |-> sh.pre[i].tok] \o <<sh.type.tok>> \o sh.data

LineText(sh) ==
  Words(<<sh.name>> \o LineTokens(sh)) \o (IF sh.term = "nl" THEN <<NL>> ELSE <<>>)

\* A record whose data is wrapped in a parenthesis group: `name SOA (`, then
\* one line per data word, each ending in a comment, and the closing
\* parenthesis on a line of its own ("own") or between the last word and its
\* comment ("inline").
MaxLines == 2

ParenNames == {<<"x", ".">>, <<"@">>}

Comments == {<<SEMI, "s">>, <<SEMI, SP, "m">>}

ParenShapes ==
  {[kind |-> "paren", name |-> n, lines |-> ls, close |-> c] :
     n \in ParenNames,
     ls \in SeqsUpTo([word : DataWords, comment : Comments], MaxLines) \ {<<>>},
     c \in {"own", "inline"}}

RECURSIVE ParenLines(_, _)
ParenLines(ls, close) ==
  IF Len(ls) = 0 THEN <<>>
  ELSE <<SP>> \o ls[1].word \o <<SP>>
       \o (IF Len(ls) = 1 /\ close = "inline" THEN <<RP, SP>> ELSE <<>>)
       \o ls[1].comment \o <<NL>> \o ParenLines(Tail(ls), close)

ParenText(sh) ==
  sh.name \o <<SP, "S", "O", "A", SP, LP, NL>> \o ParenLines(sh.lines, sh.close)
  \o (IF sh.close = "own" THEN <<RP, NL>> ELSE <<>>)

\* the single-line form: the data words, then the last comment
SingleLineText(sh) ==
  Words(<<sh.name, <<"S", "O", "A">>>>
        \o [i \in 1..Len(sh.lines) |-> sh.lines[i].word]
        \o <<sh.lines[Len(sh.lines)].comment>>) \o <<NL>>

\* Words with one space between them: entries, good and bad, one after the
\* other
MaxWords == 5

WordSet == {<<"x">>, <<"A">>, <<SEMI, "c">>, <<NL>>, <<LP>>, <<RP>>, <<LP, LP>>}

\* the same without the word of two parentheses
EntryWords == WordSet \ {<<LP, LP>>}

\* The files of a run: up to MaxGlob files *.txt.gz, then com.zone.gz and
\* org.zone.gz (line 175); each may be missing; up to MaxParallel workers.
MaxGlob == 1
MaxParallel == 2

ZoneTexts ==
  {<<"x", ".", SP, "S", "O", "A", SP, "d", NL, "y", SP, "A", SP, "d", NL>>,
   <<"x", SP, "A", SP, QUOTE, "d", NL>>}

ComTexts == {<<"X", SP, "N", "S", SP, "d", NL, "x", SP, "a", SP, "d", NL, "y", SP, "M", "X", SP, "d">>}

FileLists ==
  {g \o <<c, o>> :
     g \in SeqsUpTo([name : {"a.txt.gz"}, exists : {TRUE}, text : ZoneTexts], MaxGlob),
     c \in [name : {"com.zone.gz"}, exists : BOOLEAN, text : ComTexts],
     o \in [name : {"org.zone.gz"}, exists : BOOLEAN, text : ZoneTexts]}

\* Any text over a small alphabet
MaxLen == 4

FairLen == 3

Alphabet == {"x", "A", SP, NL, LP, RP, QUOTE, BSL, SEMI}

\* texts of quoted strings: quotes, backslashes, newlines, a letter
StrLen == 6
StrAlphabet == {"x", QUOTE, BSL, NL}

\* ---------------------------------------------------------- specifications

PoolIdle == [kind |-> "idle"]

\* one stream of any text, scanned by the loop of makeDomainsFile
Init ==
  /\ input \in SeqsUpTo(Alphabet, MaxLen)
  /\ shape = [kind |-> "text"]
  /\ ScanInit
  /\ zones = <<>>
  /\ pool = PoolIdle

Spec == Init /\ [][ScanNext]_vars

\* one stream of any short text; the loop runs as long as it can
FairInit ==
  /\ input \in SeqsUpTo(Alphabet, FairLen)
  /\ shape = [kind |-> "text"]
  /\ ScanInit
  /\ zones = <<>>
  /\ pool = PoolIdle

\* CallNext can be taken exactly when pc = "call" and always leaves it, so that
\* WF_vars(CallNext) is []<>(pc # "call"), written here without ENABLED.
FairSpec ==
  /\ FairInit
  /\ [][ScanNext]_vars
  /\ []<>(pc # "call")
  /\ WF_vars(TestErr)
  /\ WF_vars(Finish)

\* one stream holding a one-line entry
LineInit ==
  /\ shape \in LineShapes
  /\ input = LineText(shape)
  /\ ScanInit
  /\ zones = <<>>
  /\ pool = PoolIdle

LineSpec == LineInit /\ [][ScanNext]_vars

\* one stream holding a record in a parenthesis group
ParenInit ==
  /\ shape \in ParenShapes
  /\ input = ParenText(shape)
  /\ ScanInit
  /\ zones = <<>>
  /\ pool = PoolIdle

ParenSpec == ParenInit /\ [][ScanNext]_vars

\* one stream of words
WordInit ==
  /\ input \in {Words(ws) : ws \in SeqsUpTo(WordSet, MaxWords)}
  /\ shape = [kind |-> "words"]
  /\ ScanInit
  /\ zones = <<>>
  /\ pool = PoolIdle

WordSpec == WordInit /\ [][ScanNext]_vars

\* main after checkFlags and the Glob, with no stream open
PoolInit ==
  /\ \E files \in FileLists, parallel \in 1..MaxParallel :
       pool = PoolStart(files, parallel)
  /\ zones = <<>>
  /\ input = <<>>
  /\ shape = [kind |-> "pool"]
  /\ ScanInit

PoolSpec == PoolInit /\ [][PoolNext]_vars

\* one stream of up to MaxWords of the EntryWords
EntryInit ==
  /\ input \in {Words(ws) : ws \in SeqsUpTo(EntryWords, MaxWords)}
  /\ shape = [kind |-> "entries"]
  /\ ScanInit
  /\ zones = <<>>
  /\ pool = PoolIdle

EntrySpec == EntryInit /\ [][ScanNext]_vars

\* a new Scanner on any text, or on a longer text of quoted strings, before
\* the first call of nextToken
TokInit ==
  /\ input \in SeqsUpTo(Alphabet, MaxLen) \cup SeqsUpTo(StrAlphabet, StrLen)
  /\ shape = [kind |-> "tokens"]
  /\ sc = NewScanner
  /\ record = ZeroRecord
  /\ err = NoErr
  /\ pc = "first"
  /\ stuff = {}
  /\ zone = ZeroZone
  /\ hist = NoHist
  /\ zones = <<>>
  /\ pool = PoolIdle

TokSpec == TokInit /\ [][CallToken]_vars

\* ------------------------------------------------------------------ claims

\* the first call of Next on the stream has returned
FirstCallReturned == pc = "test" /\ hist.before = 0

\* a line `name ttl class type d1 ... dk`, k >= 1, ended by a newline
WellFormedLine(sh) ==
  /\ sh.kind = "line"
  /\ Len(sh.pre) = 2
  /\ sh.pre[1].kind = "ttl"
  /\ sh.pre[2].kind = "class"
  /\ sh.type.known
  /\ Len(sh.data) >= 1
  /\ sh.term = "nl"

\* C1: the first call of Next on a line `name ttl class type d1 ... dk` ended
\* by a newline succeeds, and the Record has the name, the TTL's value, the
\* class, the type, the data tokens in input order and no comment.
C1_WellFormedLine ==
  (FirstCallReturned /\ WellFormedLine(shape)) =>
    /\ err = NoErr
    /\ record = [DomainName |-> shape.name, TimeToLive |-> shape.pre[1].val,
                 Class |-> shape.pre[2].val, Type |-> shape.type.val,
                 Data |-> shape.data, Comment |-> <<>>]

C1_Witness ==
  /\ FirstCallReturned
  /\ WellFormedLine(shape)
  /\ Len(shape.data) = 2
  /\ shape.data[1] # shape.data[2]
  /\ record.Data = shape.data
  /\ record.TimeToLive = <<42949, 67295>>

\* a line `name class ttl type ...`
ClassFirstLine(sh) ==
  /\ sh.kind = "line"
  /\ Len(sh.pre) = 2
  /\ sh.pre[1].kind = "class"
  /\ sh.pre[2].kind = "ttl"
  /\ sh.type.known

\* the same line with the two tokens before the type exchanged
Swapped(sh) == [sh EXCEPT !.pre = <<sh.pre[2], sh.pre[1]>>]

\* C2: on a line written `name class ttl type data` the first call of Next
\* returns what it returns on the same line written `name ttl class type
\* data`: the same error or success, and an equal Record.
C2_OrderIndependent ==
  (FirstCallReturned /\ ClassFirstLine(shape)) =>
    LET o == Next(LineText(Swapped(shape)), NewScanner) IN
      /\ err = o.err
      /\ record = IF o.wrote THEN o.record ELSE ZeroRecord

C2_Witness ==
  /\ FirstCallReturned
  /\ ClassFirstLine(shape)
  /\ err = NoErr
  /\ record.Class = RecordClass_any
  /\ record.TimeToLive = <<0, 7>>
  /\ Len(record.Data) = 2

\* The first token of pre, then the type, that is neither captured as TTL (a
\* TTL token, none captured yet) nor as class (a class mnemonic, none captured
\* yet) nor a known type: its index among the tokens after the name, or 0.
RECURSIVE FirstOffender(_, _, _, _)
FirstOffender(sh, i, hasTTL, hasClass) ==
  IF i > Len(sh.pre) THEN (IF sh.type.known THEN 0 ELSE i)
  ELSE IF sh.pre[i].kind = "ttl" /\ ~hasTTL
  THEN FirstOffender(sh, i + 1, TRUE, hasClass)
  ELSE IF sh.pre[i].kind = "class" /\ ~hasClass
  THEN FirstOffender(sh, i + 1, hasTTL, TRUE)
  ELSE i

Offender == IF shape.kind = "line" THEN FirstOffender(shape, 1, FALSE, FALSE) ELSE 0

\* C9: before the type is known, the first token that is neither captured as
\* TTL nor as class nor a known type makes the call return the unknown-type
\* error naming it; the tokens the call has read end with that token, and no
\* Record is written.
C9_UnknownTypeStops ==
  (FirstCallReturned /\ Offender # 0) =>
    /\ err = ErrUnknownType(LineTokens(shape)[Offender])
    /\ hist.toks = <<shape.name>> \o SubSeq(LineTokens(shape), 1, Offender)
    /\ record = ZeroRecord

C9_Witness ==
  /\ FirstCallReturned
  /\ Offender # 0
  /\ Offender < Len(LineTokens(shape))
  /\ shape.type.known
  /\ err.kind = "UnknownType"

\* a line `name ttl class type` with no data
HeadOnlyLine(sh) ==
  /\ sh.kind = "line"
  /\ Len(sh.pre) = 2
  /\ sh.pre[1].kind = "ttl"
  /\ sh.pre[2].kind = "class"
  /\ sh.type.known
  /\ Len(sh.data) = 0

\* C10: a line `name ttl class type` with no data fails with "incomplete
\* record" when the input ends after the type and with "missing data", naming
\* the domain and the type, when a newline follows the type; the two errors
\* differ and no Record is written.
C10_NoData ==
  (FirstCallReturned /\ HeadOnlyLine(shape)) =>
    /\ shape.term = "eof" => err = ErrIncomplete
    /\ shape.term = "nl" => err = ErrMissingData(shape.name, shape.type.val)
    /\ ErrIncomplete # ErrMissingData(shape.name, shape.type.val)
    /\ record = ZeroRecord

C10_Witness ==
  /\ FirstCallReturned
  /\ HeadOnlyLine(shape)
  /\ shape.term = "eof"
  /\ err = ErrIncomplete

\* C3: on a record in a parenthesis group with a comment at the end of every
\* line, the first call of Next returns the Record of the single-line form:
\* Data the data words in order, Comment the comment after the last word.
C3_ParenEquivalent ==
  (FirstCallReturned /\ shape.kind = "paren") =>
    LET o == Next(SingleLineText(shape), NewScanner) IN
      /\ err = NoErr
      /\ record = o.record
      /\ record.Data = [i \in 1..Len(shape.lines) |-> shape.lines[i].word]
      /\ record.Comment = shape.lines[Len(shape.lines)].comment

\* no newline and no parenthesis inside quoted data
QuotedDataClean(r) ==
  \A i \in 1..Len(r.Data) :
    r.Data[i][1] = QUOTE =>
      \A k \in 1..Len(r.Data[i]) : r.Data[i][k] \notin {NL, LP, RP}

\* C4: every Record that Next returns, with no newline or parenthesis inside
\* quoted data, is returned again, equal in every field, by the first call of
\* a fresh Scanner on the text Record.String renders it to.
C4_RoundTrip ==
  (pc = "test" /\ err = NoErr /\ QuotedDataClean(record)) =>
    LET o == Next(RecordString(record), NewScanner) IN
      /\ o.err = NoErr
      /\ o.wrote
      /\ o.record = record

\* C5: after a call of Next has returned an error, io.EOF or any other, the
\* loop of makeDomainsFile does not call Next again.
C5_NoCallAfterError == [][(pc = "test" /\ err # NoErr) => pc' # "call"]_vars

\* C6: the loop of makeDomainsFile ends on every input.
C6_LoopEnds == <>(pc = "done")

\* every token nextToken hands out on inp, in order, up to the first error
RECURSIVE tokensFrom(_, _)
tokensFrom(inp, s) ==
  LET t == nextToken(inp, s) IN
  IF t.err # NoErr THEN <<>> ELSE <<t.token>> \o tokensFrom(inp, t.s)

AllTokens(inp) == tokensFrom(inp, NewScanner)

\* token i is no comment and no separator, and only comments lie between it
\* and the separator before it (or the start of the input)
IsEntryHead(ts, i) ==
  /\ i \in 1..Len(ts)
  /\ ts[i] # <<NL>>
  /\ ~IsCommentToken(ts[i])
  /\ \A j \in 1..(i - 1) :
       (\A k \in j..(i - 1) : ts[k] # <<NL>>) => IsCommentToken(ts[j])

\* C8: the DomainName of every Record Next returns, after failed calls too, is
\* the first token, comments apart, after a record separator or the start of
\* the input.
C8_NameStartsEntry ==
  (pc = "test" /\ err = NoErr) =>
    LET ts == AllTokens(input) IN
      /\ IsEntryHead(ts, hist.before + hist.nameAt)
      /\ record.DomainName = ts[hist.before + hist.nameAt]

\* C7: when writeStatsFile runs, zones holds one ZoneInfo for every append the
\* workers have executed.
C7_NoAppendLost ==
  (pool.kind = "pool" /\ pool.mainPc = "done") => Len(pool.stats) = pool.appends

\* a call of nextToken has returned
TokenReturned == pc \in {"token", "end"}

ClosedStates == {scannerState_Default, scannerState_Space, scannerState_Comment}

\* C11: when the input ends during a call of nextToken in state Default, Space
\* or Comment, a pending token is returned and the call after it returns
\* io.EOF (with nothing pending the call itself returns io.EOF); when it ends
\* in any other state the call returns "Unexpected end of input", which is not
\* io.EOF, and Next, in its name loop and in its record loop, returns it.
C11_EndOfInput ==
  TokenReturned =>
    LET e == EndOfCall(input, hist.from, <<>>) IN
      e.eof =>
        IF e.state \in ClosedStates
        THEN IF e.token # <<>>
             THEN /\ err = NoErr
                  /\ hist.toks = <<e.token>>
                  /\ nextToken(input, sc).err = ErrEOF
             ELSE err = ErrEOF
        ELSE /\ err = ErrUnexpectedEnd
             /\ err # ErrEOF
             /\ Next(input, hist.from).err = ErrUnexpectedEnd
             /\ hist.before = 0 =>
                  Next(<<"x", SP>> \o input, NewScanner).err = ErrUnexpectedEnd

\* the input ends in an open parenthesis group with a word pending
C11_Witness ==
  /\ TokenReturned
  /\ hist.before > 0
  /\ EndOfCall(input, hist.from, <<>>) =
       [eof |-> TRUE, state |-> scannerState_Paren, token |-> <<"x">>]
  /\ err = ErrUnexpectedEnd

\* C12: a call of Next that returns io.EOF has read no token of a record: no
\* domain name, only record separators and comments.
C12_EOFOnlyBetweenRecords ==
  (pc = "test" /\ err = ErrEOF) => hist.nameAt = 0

\* C13: every Record Next returns without error has a Type other than UNKNOWN
\* and at least one element of Data, at a record separator and at the end of
\* the input alike.
C13_TypeAndData ==
  (pc = "test" /\ err = NoErr) =>
    /\ record.Type # RecordType_UNKNOWN
    /\ Len(record.Data) >= 1

\* a Record ended by the end of the input, returned after an earlier call failed
C13_Witness ==
  /\ pc = "test"
  /\ err = NoErr
  /\ hist.before > 0
  /\ sc.pos = Len(input)
  /\ hist.toks[Len(hist.toks)] # <<NL>>
  /\ Len(record.Data) = 1

\* C15: a call of Next that returns an error, whichever it is, leaves the
\* caller's Record as it was.
C15_ErrorKeepsRecord == [][(pc = "call" /\ err' # NoErr) => record' = record]_vars

\* a call has failed, with a lexical, classification or structural error,
\* while the caller holds the Record of an earlier call
C15_Witness ==
  /\ pc = "test"
  /\ err \notin {NoErr, ErrEOF}
  /\ hist.before > 0
  /\ record.Data # <<>>

\* the largest element of a non-empty set of integers
MaxOf(S) == CHOOSE m \in S : \A k \in S : k <= m

\* the places, in the tokens of the last call of Next, of comments after the
\* last token that is neither a comment nor a record separator
TrailingComments ==
  LET ts == hist.toks
      words == {i \in 1..Len(ts) : ts[i] # <<NL>> /\ ~IsCommentToken(ts[i])}
  IN {j \in 1..Len(ts) : IsCommentToken(ts[j]) /\ j > MaxOf(words)}

\* C14: the Comment of every Record Next returns is the comment token read
\* after the last data token, and is empty when there is none: a comment
\* followed by a data token does not stay in Comment.
C14_CommentAfterLastData ==
  (pc = "test" /\ err = NoErr) =>
    record.Comment = IF TrailingComments = {} THEN <<>>
                     ELSE hist.toks[MaxOf(TrailingComments)]

\* a Record with a comment between two data tokens and another, kept, after
\* the last one
C14_Witness ==
  /\ pc = "test"
  /\ err = NoErr
  /\ record.Comment = <<SEMI, SP, "m">>
  /\ \E i, j, k \in 1..Len(hist.toks) :
       /\ i < j
       /\ j < k
       /\ hist.toks[i] = <<"d">>
       /\ hist.toks[j] = <<SEMI, "s">>
       /\ hist.toks[k] = <<"9">>
       /\ k < MaxOf(TrailingComments)

\* the tokens returned before the last call of nextToken
TokensBefore == SubSeq(AllTokens(input), 1, hist.before)

\* whether a parenthesis group is open after the tokens ts: "(" opens one when
\* none is open, ")" closes the open one
RECURSIVE GroupOpen(_)
GroupOpen(ts) ==
  IF Len(ts) = 0 THEN FALSE
  ELSE LET open == GroupOpen(SubSeq(ts, 1, Len(ts) - 1))
           tok == ts[Len(ts)]
       IN IF ~open /\ tok = <<LP>> THEN TRUE
          ELSE IF open /\ tok = <<RP>> THEN FALSE
          ELSE open

\* the place in the input of the first rune the last call of nextToken took
FirstRune == IF hist.from.nextSize # 0 THEN hist.from.pos ELSE hist.from.pos + 1

ParenStates ==
  {scannerState_Paren, scannerState_ParenComment, scannerState_ParenString,
   scannerState_ParenStringEscape}

\* C16: nextToken returns the record separator "\n" only for a newline read
\* in state Default with no token pending, after blanks alone, and never
\* while a parenthesis group is open; a call that starts in Paren,
\* ParenComment, ParenString or ParenStringEscape never returns it.
C16_NoSeparatorInGroup ==
  (TokenReturned /\ err = NoErr /\ hist.toks = <<<<NL>>>>) =>
    /\ hist.from.state = scannerState_Default
    /\ hist.from.state \notin ParenStates
    /\ ~GroupOpen(TokensBefore)
    /\ input[sc.pos] = NL
    /\ \A k \in FirstRune..(sc.pos - 1) : input[k] = SP
    /\ sc.state = scannerState_Space

\* a record separator returned after a parenthesis group with a newline in it
\* was closed
C16_Witness ==
  /\ TokenReturned
  /\ err = NoErr
  /\ hist.toks = <<<<NL>>>>
  /\ \E i \in 1..hist.before : TokensBefore[i] = <<RP>> /\ GroupOpen(SubSeq(TokensBefore, 1, i - 1))
  /\ \E k \in 1..(sc.pos - 1) : input[k] = NL

\* the last call of nextToken returned a comment that a newline ended
CommentBeforeNewline ==
  /\ TokenReturned
  /\ err = NoErr
  /\ IsCommentToken(hist.toks[1])
  /\ ~EndOfCall(input, hist.from, <<>>).eof

\* C17: a comment ended by a newline is returned as the text from its ';' up
\* to the newline, without it; the newline is not consumed but kept as the
\* Scanner's next rune, and outside a parenthesis group the next call of
\* nextToken returns it as the record separator.
C17_CommentThenSeparator ==
  CommentBeforeNewline =>
    LET tok == hist.toks[1] IN
      /\ \A k \in 1..Len(tok) : tok[k] # NL
      /\ sc.pos > Len(tok)
      /\ tok = SubSeq(input, sc.pos - Len(tok), sc.pos - 1)
      /\ input[sc.pos] = NL
      /\ sc.nextSize # 0
      /\ sc.nextRune = NL
      /\ sc.state \in {scannerState_Default, scannerState_Paren}
      /\ sc.state = scannerState_Default =>
           nextToken(input, sc) = TokenResult(<<NL>>, NoErr, Eat(sc, scannerState_Space))

\* a comment after a word, ended by a newline, outside any parenthesis group
C17_Witness ==
  /\ CommentBeforeNewline
  /\ hist.before > 0
  /\ Len(hist.toks[1]) > 1
  /\ sc.state = scannerState_Default
  /\ nextToken(input, sc).token = <<NL>>

\* the place in tok, from place i on, of the first quote that no backslash
\* escapes (a backslash escapes the character after it, whatever it is);
\* 0 when there is none
RECURSIVE ClosingQuote(_, _)
ClosingQuote(tok, i) ==
  IF i > Len(tok) THEN 0
  ELSE IF tok[i] = QUOTE THEN i
  ELSE IF tok[i] = BSL THEN ClosingQuote(tok, i + 2)
  ELSE ClosingQuote(tok, i + 1)

\* the last call of nextToken returned a quoted string
StringReturned ==
  /\ TokenReturned
  /\ err = NoErr
  /\ hist.toks[1][1] = QUOTE

\* C18: a quoted-string token is the input, verbatim, from its opening quote
\* to the first quote that no backslash escapes, that quote included; the
\* character after a backslash is kept as it is and never ends the token; the
\* Scanner is then back in Default, or in Paren inside a parenthesis group.
C18_QuotedToken ==
  StringReturned =>
    LET tok == hist.toks[1] IN
      /\ sc.nextSize = 0
      /\ sc.pos >= Len(tok)
      /\ tok = SubSeq(input, sc.pos - Len(tok) + 1, sc.pos)
      /\ ClosingQuote(tok, 2) = Len(tok)
      /\ sc.state = IF GroupOpen(TokensBefore) THEN scannerState_Paren
                    ELSE scannerState_Default

\* the token "x\"x", an escaped quote inside
C18_Witness ==
  /\ StringReturned
  /\ hist.toks[1] = <<QUOTE, "x", BSL, QUOTE, "x", QUOTE>>

\* C20: a token nextToken returns with a nil error is never empty: it is
\* "\n", "(" or ")", a quoted string, a comment, or a word with no white
\* space, quote or semicolon in it; so Next never indexes an empty token.
C20_NoEmptyToken ==
  (TokenReturned /\ err = NoErr) =>
    LET tok == hist.toks[1] IN
      /\ Len(hist.toks) = 1
      /\ Len(tok) > 0
      /\ \/ tok \in {<<NL>>, <<LP>>, <<RP>>}
         \/ tok[1] = QUOTE
         \/ tok[1] = SEMI
         \/ \A k \in 1..Len(tok) : ~IsSpace(tok[k]) /\ tok[k] \notin {QUOTE, SEMI}
      /\ Next(input, hist.from).err # ErrPanic

\* a word returned by a call that started in state Space, after a record
\* separator
C20_Witness ==
  /\ TokenReturned
  /\ err = NoErr
  /\ hist.from.state = scannerState_Space
  /\ hist.toks = <<<<"x">>>>

\* the workers inside makeDomainsFile or about to call work.Done
Busy == {i \in 1..pool.parallel : pool.w[i].pc \in {"make", "load", "store", "return"}}

\* C19: main reaches writeStatsFile only when makeDomainsFile has returned
\* once for every file, no worker is at work and the loader has finished. On
\* the way, no file is held by two workers or handled twice, a file is handled
\* only after its work.Add and its send, the counter is the number of files
\* added and not yet done, and loadDone is signalled after the last Add.
C19_StatsAfterAllFiles ==
  pool.kind = "pool" =>
    LET n == Len(pool.files)
        added == IF pool.loadPc \in {"send"} THEN pool.loadIdx
                 ELSE pool.loadIdx - 1
    IN
    /\ pool.mainPc \in {"stats", "done"} =>
         /\ \A f \in 1..n : pool.handled[f] = 1
         /\ Busy = {}
         /\ pool.loadPc = "done"
         /\ pool.work = 0
    /\ \A f \in 1..n : pool.handled[f] <= 1
    /\ \A f \in 1..n : pool.handled[f] = 1 => f < pool.loadIdx
    /\ \A i, j \in Busy : i # j => pool.w[i].file # pool.w[j].file
    /\ \A i \in Busy : pool.handled[pool.w[i].file] = 0
    /\ pool.work = added - pool.returned
    /\ pool.work >= 0
    /\ pool.loadPc = "done" => added = n

\* writeStatsFile has run after two workers have handled three files
C19_Witness ==
  /\ pool.kind = "pool"
  /\ pool.mainPc = "done"
  /\ pool.parallel = 2
  /\ Len(pool.files) = 3
  /\ pool.returned = 3
  /\ \A f \in 1..3 : pool.handled[f] = 1

====
